---- MODULE Spec2Model ----
(***************************************************************************)
(* Model of src/src/06-objects-tasks.js: the css selector Builder class,   *)
(* the cssSelectorBuilder facade and combine.                              *)
(*                                                                         *)
(* A builder is an object on the heap; the heap is the function            *)
(* `selectors` from builder identities to the array this.selectors of that *)
(* object.  Every public call is one action.  The variable `last` records  *)
(* the most recent call (which method, on which object, with which         *)
(* argument, and what it threw or returned), so that the outcome of a call *)
(* can be stated: about the state after it as a state predicate, about the *)
(* states before and after it as an action property.  The variable `log`   *)
(* records, for every builder, the calls that made it what it is since it  *)
(* was constructed or last rendered; a builder that combine returned has   *)
(* the combine call, with the logs of its two arguments.                   *)
(***************************************************************************)
EXTENDS Integers, Sequences, FiniteSets, TLC

\* ---------------------------------------------------------------- bounds
\* Spec: number of fragments the one builder holds.
MaxLen == 3
\* SpecHeap: number of calls that made each of the two builders of its
\* initial states.
MaxChain == 2
\* SpecNested: number of combine calls nested in one another.
MaxDepth == 2
\* SpecObjects: widths, heights and property values are 0..MaxSide, 10 or 20.
MaxSide == 3
\* SpecObjects: number of members of a JSON text.
MaxMembers == 2
\* Number of Builder objects the heap has room for: the MaxDepth + 1
\* arguments of MaxDepth nested combine calls and the builders they return.
MaxBuilders == 2 * MaxDepth + 1
\* SpecHeap: number of fragments held by all builders together.
MaxFrags == 4

\* Argument strings passed to element, id, class, attr, pseudoClass,
\* pseudoElement and raw.
Values == {"a", "b"}

\* The argument strings of the runs with several builders.
HeapValues == {"a"}

\* The combinators named by the documentation of the builder.
Combinators == {" ", "+", "~", ">"}

\* Combinator arguments passed to combine: a documented one and one that is
\* not a combinator.
CombinatorInputs == {"+", "x"}

\* ------------------------------------------------------------- constants
\* The value of a parameter that the caller did not pass.
undefined == 0

repeatError == "Element, id and pseudo-element should not occur more then one time inside the selector"

orderError == "Selector parts should be arranged in the following order: element, id, class, attribute, pseudo-class, pseudo-element"

\* thrown = NoError: the call returned normally.
NoError == "none"

\* returned = NoObject: the call returned no builder (it threw, or it
\* returned a string).
NoObject == 0

Builders == 1..MaxBuilders

VARIABLES selectors, created, log, last

vars == <<selectors, created, log, last>>

\* ------------------------------------------------------- Builder methods
\* A variant of add that puts the fragment in front (unshift for push).
add_Unshift(s, type, value, priority) ==
  <<[type |-> type, value |-> value, priority |-> priority]>> \o s

\* this.selectors.push({type, value, priority})
add(s, type, value, priority) ==
  Append(s, [type |-> type, value |-> value, priority |-> priority])

\* A variant of isSelectorExist that looks at the last fragment only.
isSelectorExist_Last(s, type) ==
  /\ Len(s) # 0
  /\ s[Len(s)].type = type

\* this.selectors.some((obj) => obj.type === type)
isSelectorExist(s, type) ==
  \E i \in 1..Len(s) : s[i].type = type

\* JavaScript's x > y on a number or undefined and a number: undefined
\* converts to NaN, and every comparison with NaN is false.
GreaterThan(x, y) ==
  /\ x # undefined
  /\ y # undefined
  /\ x > y

\* A variant of isPriorityRight that reads selectors[0] in place of
\* selectors[length - 1].
isPriorityRight_First(s, priority) ==
  /\ Len(s) # 0
  /\ GreaterThan(s[1].priority, priority)

\* (length !== 0) && (selectors[length - 1].priority > priority)
isPriorityRight(s, priority) ==
  /\ Len(s) # 0
  /\ GreaterThan(s[Len(s)].priority, priority)

\* The two ways a method ends: by throw new Error(message), which leaves
\* this.selectors as it is, or by returning after this.add(...).
Throw(s, message) == [selectors |-> s, thrown |-> message]

Return(s) == [selectors |-> s, thrown |-> NoError]

\* A variant of element that checks the order before the repetition.
Builder_element_OrderFirst(s, value) ==
  IF isPriorityRight(s, 1) THEN Throw(s, orderError)
  ELSE IF isSelectorExist(s, "element") THEN Throw(s, repeatError)
  ELSE Return(add(s, "element", value, 1))

Builder_element(s, value) ==
  IF isSelectorExist(s, "element") THEN Throw(s, repeatError)
  ELSE IF isPriorityRight(s, 1) THEN Throw(s, orderError)
  ELSE Return(add(s, "element", value, 1))

Builder_id(s, value) ==
  IF isSelectorExist(s, "id") THEN Throw(s, repeatError)
  ELSE IF isPriorityRight(s, 2) THEN Throw(s, orderError)
  ELSE Return(add(s, "id", "#" \o value, 2))

\* A variant of class that adds the fragment before it checks the order.
Builder_class_AddFirst(s, value) ==
  IF isPriorityRight(s, 3)
  THEN Throw(add(s, "class", "." \o value, 3), orderError)
  ELSE Return(add(s, "class", "." \o value, 3))

Builder_class(s, value) ==
  IF isPriorityRight(s, 3) THEN Throw(s, orderError)
  ELSE Return(add(s, "class", "." \o value, 3))

\* A variant of attr that admits one attribute only.
Builder_attr_Unique(s, value) ==
  IF isSelectorExist(s, "attr") THEN Throw(s, repeatError)
  ELSE IF isPriorityRight(s, 4) THEN Throw(s, orderError)
  ELSE Return(add(s, "attr", "[" \o value \o "]", 4))

Builder_attr(s, value) ==
  IF isPriorityRight(s, 4) THEN Throw(s, orderError)
  ELSE Return(add(s, "attr", "[" \o value \o "]", 4))

Builder_pseudoClass(s, value) ==
  IF isPriorityRight(s, 5) THEN Throw(s, orderError)
  ELSE Return(add(s, "pseudoClass", ":" \o value, 5))

Builder_pseudoElement(s, value) ==
  IF isSelectorExist(s, "pseudoElement") THEN Throw(s, repeatError)
  ELSE IF isPriorityRight(s, 6) THEN Throw(s, orderError)
  ELSE Return(add(s, "pseudoElement", "::" \o value, 6))

\* this.add('raw', value): the third parameter is not passed.
Builder_raw(s, value) ==
  Return(add(s, "raw", value, undefined))

\* A variant of the loop of stringify that puts each value in front.
RECURSIVE stringifyLoop_Prepend(_, _, _)
stringifyLoop_Prepend(s, i, string) ==
  IF i < Len(s) THEN stringifyLoop_Prepend(s, i + 1, s[i + 1].value \o string)
  ELSE string

\* for (let i = 0; i < length; i += 1) string += this.selectors[i].value
RECURSIVE stringifyLoop(_, _, _)
stringifyLoop(s, i, string) ==
  IF i < Len(s) THEN stringifyLoop(s, i + 1, string \o s[i + 1].value)
  ELSE string

\* A variant of stringify without this.selectors = [].
Builder_stringify_Keep(s) ==
  [string |-> stringifyLoop(s, 0, ""), selectors |-> s]

\* stringify(): the string it returns and the array it leaves behind.
Builder_stringify(s) ==
  [string |-> stringifyLoop(s, 0, ""), selectors |-> <<>>]

\* ------------------------------------------------------------ the heap
RECURSIVE SumLen(_, _)
SumLen(h, n) ==
  IF n = 0 THEN 0 ELSE Len(h[n]) + SumLen(h, n - 1)

\* Number of fragments on the heap h.
TotalFrags(h) == SumLen(h, MaxBuilders)

Alive == 1..created

\* The record of a call: the method, the builder it was called on (none for
\* a call on the facade), its string argument, the error it threw, the
\* builder it returned, the string it returned, and, for combine, the two
\* builders passed to it.
Call(op, this, value, thrown, returned, string) ==
  [op |-> op, this |-> this, value |-> value, thrown |-> thrown,
   returned |-> returned, string |-> string,
   selector1 |-> NoObject, selector2 |-> NoObject]

\* A method call b.op(value) on an existing builder, r its outcome.  On a
\* normal return the method returns this.
Method(op, b, value, r) ==
  /\ b \in Alive
  /\ selectors' = [selectors EXCEPT ![b] = r.selectors]
  /\ log' = IF r.thrown = NoError
            THEN [log EXCEPT ![b] = Append(@, [op |-> op, value |-> value])]
            ELSE log
  /\ last' = Call(op, b, value, r.thrown,
                  IF r.thrown = NoError THEN b ELSE NoObject, "")
  /\ UNCHANGED created

\* A variant of the facade call in which the facade keeps one Builder and
\* every call appends to it.
Factory_Shared(op, value, r) ==
  /\ created < MaxBuilders
  /\ created' = IF created = 0 THEN 1 ELSE created
  /\ selectors' = [selectors EXCEPT ![1] = @ \o r.selectors]
  /\ log' = [log EXCEPT ![1] = Append(@, [op |-> op, value |-> value])]
  /\ last' = Call("new." \o op, NoObject, value, r.thrown, 1, "")

\* A facade call cssSelectorBuilder.op(value): new Builder(), whose
\* constructor sets this.selectors = [], then the method on it.
Factory(op, value, r) ==
  /\ created < MaxBuilders
  /\ created' = created + 1
  /\ selectors' = [selectors EXCEPT ![created + 1] = r.selectors]
  /\ log' = IF r.thrown = NoError
            THEN [log EXCEPT ![created + 1] = <<[op |-> op, value |-> value]>>]
            ELSE log
  /\ last' = Call("new." \o op, NoObject, value, r.thrown,
                  IF r.thrown = NoError THEN created + 1 ELSE NoObject, "")

\* --------------------------------------------------------------- actions
element(b, value) ==
  Method("element", b, value, Builder_element(selectors[b], value))

id(b, value) ==
  Method("id", b, value, Builder_id(selectors[b], value))

class(b, value) ==
  Method("class", b, value, Builder_class(selectors[b], value))

attr(b, value) ==
  Method("attr", b, value, Builder_attr(selectors[b], value))

pseudoClass(b, value) ==
  Method("pseudoClass", b, value, Builder_pseudoClass(selectors[b], value))

pseudoElement(b, value) ==
  Method("pseudoElement", b, value, Builder_pseudoElement(selectors[b], value))

raw(b, value) ==
  Method("raw", b, value, Builder_raw(selectors[b], value))

stringify(b) ==
  /\ b \in Alive
  /\ LET r == Builder_stringify(selectors[b]) IN
       /\ selectors' = [selectors EXCEPT ![b] = r.selectors]
       /\ log' = [log EXCEPT ![b] = <<>>]
       /\ last' = Call("stringify", b, "", NoError, NoObject, r.string)
  /\ UNCHANGED created

cssSelectorBuilder_element(value) ==
  Factory("element", value, Builder_element(<<>>, value))

cssSelectorBuilder_id(value) ==
  Factory("id", value, Builder_id(<<>>, value))

cssSelectorBuilder_class(value) ==
  Factory("class", value, Builder_class(<<>>, value))

cssSelectorBuilder_attr(value) ==
  Factory("attr", value, Builder_attr(<<>>, value))

cssSelectorBuilder_pseudoClass(value) ==
  Factory("pseudoClass", value, Builder_pseudoClass(<<>>, value))

cssSelectorBuilder_pseudoElement(value) ==
  Factory("pseudoElement", value, Builder_pseudoElement(<<>>, value))

\* A variant of combine that puts no spaces around the combinator.
combineResult_NoSpaces(h, selector1, combinator, selector2) ==
  LET r1 == Builder_stringify(h[selector1])
      h1 == [h EXCEPT ![selector1] = r1.selectors]
      n1 == Builder_raw(<<>>, r1.string).selectors
      n2 == Builder_raw(n1, combinator).selectors
      r2 == Builder_stringify(h1[selector2])
      h2 == [h1 EXCEPT ![selector2] = r2.selectors]
      n3 == Builder_raw(n2, r2.string).selectors
  IN  [heap |-> h2, selectors |-> n3]

\* A variant of combine that renders copies of its arguments.
combineResult_KeepArgs(h, selector1, combinator, selector2) ==
  LET r1 == Builder_stringify(h[selector1])
      n1 == Builder_raw(<<>>, r1.string).selectors
      n2 == Builder_raw(n1, " " \o combinator \o " ").selectors
      r2 == Builder_stringify(h[selector2])
      n3 == Builder_raw(n2, r2.string).selectors
  IN  [heap |-> h, selectors |-> n3]

\* A variant of combine that renders selector2 in front of selector1.
combineResult_Swapped(h, selector1, combinator, selector2) ==
  LET r2 == Builder_stringify(h[selector2])
      h1 == [h EXCEPT ![selector2] = r2.selectors]
      n1 == Builder_raw(<<>>, r2.string).selectors
      n2 == Builder_raw(n1, " " \o combinator \o " ").selectors
      r1 == Builder_stringify(h1[selector1])
      h2 == [h1 EXCEPT ![selector1] = r1.selectors]
      n3 == Builder_raw(n2, r1.string).selectors
  IN  [heap |-> h2, selectors |-> n3]

\* The heap after combine(selector1, combinator, selector2) and the array of
\* the builder it returns.  JavaScript evaluates the chain left to right:
\* new Builder(), selector1.stringify(), raw, raw of the combinator,
\* selector2.stringify() (on the heap selector1.stringify() left), raw.
combineResult(h, selector1, combinator, selector2) ==
  LET r1 == Builder_stringify(h[selector1])
      h1 == [h EXCEPT ![selector1] = r1.selectors]
      n1 == Builder_raw(<<>>, r1.string).selectors
      n2 == Builder_raw(n1, " " \o combinator \o " ").selectors
      r2 == Builder_stringify(h1[selector2])
      h2 == [h1 EXCEPT ![selector2] = r2.selectors]
      n3 == Builder_raw(n2, r2.string).selectors
  IN  [heap |-> h2, selectors |-> n3]

cssSelectorBuilder_combine(selector1, combinator, selector2) ==
  /\ selector1 \in Alive
  /\ selector2 \in Alive
  /\ created < MaxBuilders
  /\ LET r == combineResult(selectors, selector1, combinator, selector2) IN
       /\ created' = created + 1
       /\ selectors' = [r.heap EXCEPT ![created + 1] = r.selectors]
       /\ log' = [log EXCEPT ![selector1] = <<>>, ![selector2] = <<>>,
                             ![created + 1] =
                               <<[op |-> "combine", value |-> combinator,
                                  left |-> log[selector1],
                                  right |-> log[selector2],
                                  same |-> (selector1 = selector2)]>>]
       /\ last' = [Call("combine", NoObject, combinator, NoError,
                        created + 1, "")
                   EXCEPT !.selector1 = selector1, !.selector2 = selector2]

\* ------------------------------------------------------- specification
Init ==
  /\ selectors = [b \in Builders |-> <<>>]
  /\ created = 0
  /\ log = [b \in Builders |-> <<>>]
  /\ last = [op |-> "init", this |-> NoObject, value |-> "",
             thrown |-> NoError, returned |-> NoObject, string |-> "",
             selector1 |-> NoObject, selector2 |-> NoObject]

\* The runs explored: at most nb builders constructed, holding at most nf
\* fragments together.
Within(nb, nf) ==
  /\ created' <= nb
  /\ TotalFrags(selectors') <= nf

\* One builder, made by a facade call and then used through its methods.
Next ==
  \/ \E b \in Builders, value \in Values :
       element(b, value) /\ Within(1, MaxLen)
  \/ \E b \in Builders, value \in Values :
       id(b, value) /\ Within(1, MaxLen)
  \/ \E b \in Builders, value \in Values :
       class(b, value) /\ Within(1, MaxLen)
  \/ \E b \in Builders, value \in Values :
       attr(b, value) /\ Within(1, MaxLen)
  \/ \E b \in Builders, value \in Values :
       pseudoClass(b, value) /\ Within(1, MaxLen)
  \/ \E b \in Builders, value \in Values :
       pseudoElement(b, value) /\ Within(1, MaxLen)
  \/ \E b \in Builders, value \in Values :
       raw(b, value) /\ Within(1, MaxLen)
  \/ \E b \in Builders :
       stringify(b) /\ Within(1, MaxLen)
  \/ \E value \in Values :
       cssSelectorBuilder_element(value) /\ Within(1, MaxLen)
  \/ \E value \in Values :
       cssSelectorBuilder_id(value) /\ Within(1, MaxLen)
  \/ \E value \in Values :
       cssSelectorBuilder_class(value) /\ Within(1, MaxLen)
  \/ \E value \in Values :
       cssSelectorBuilder_attr(value) /\ Within(1, MaxLen)
  \/ \E value \in Values :
       cssSelectorBuilder_pseudoClass(value) /\ Within(1, MaxLen)
  \/ \E value \in Values :
       cssSelectorBuilder_pseudoElement(value) /\ Within(1, MaxLen)

Spec == Init /\ [][Next]_vars

\* The method named op applied to the array s.
Apply(op, s, value) ==
  CASE op = "element" -> Builder_element(s, value)
    [] op = "id" -> Builder_id(s, value)
    [] op = "class" -> Builder_class(s, value)
    [] op = "attr" -> Builder_attr(s, value)
    [] op = "pseudoClass" -> Builder_pseudoClass(s, value)
    [] op = "pseudoElement" -> Builder_pseudoElement(s, value)
    [] op = "raw" -> Builder_raw(s, value)

\* The methods that append a ranked fragment.
RankedMethods ==
  {"element", "id", "class", "attr", "pseudoClass", "pseudoElement"}

\* The builders a caller can hold after at most n ranked method calls that
\* returned since the builder was constructed or last rendered: the array of
\* each, and the calls that made it.
RECURSIVE Chains(_)
Chains(n) ==
  IF n = 0 THEN {[selectors |-> <<>>, log |-> <<>>]}
  ELSE LET shorter == Chains(n - 1) IN
       shorter \cup
       {[selectors |-> Apply(x[2], x[1].selectors, x[3]).selectors,
         log |-> Append(x[1].log, [op |-> x[2], value |-> x[3]])] :
          x \in {y \in shorter \X RankedMethods \X HeapValues :
                   Apply(y[2], y[1].selectors, y[3]).thrown = NoError}}

\* Two builders, each as some chain of calls left it, and no call made on
\* them yet.
InitHeap ==
  /\ \E c1 \in Chains(MaxChain), c2 \in Chains(MaxChain) :
       /\ selectors = [b \in Builders |->
                        IF b = 1 THEN c1.selectors
                        ELSE IF b = 2 THEN c2.selectors ELSE <<>>]
       /\ log = [b \in Builders |->
                  IF b = 1 THEN c1.log ELSE IF b = 2 THEN c2.log ELSE <<>>]
  /\ created = 2
  /\ last = [op |-> "init", this |-> NoObject, value |-> "",
             thrown |-> NoError, returned |-> NoObject, string |-> "",
             selector1 |-> NoObject, selector2 |-> NoObject]

\* Two builders and combine: combine of builder 1 and either builder (the
\* initial states are symmetric in the two), stringify of any builder, and
\* method calls chained on the builder the last call returned.
NextHeap ==
  \/ \E b \in {last.returned}, value \in HeapValues :
       element(b, value) /\ Within(MaxBuilders, MaxFrags)
  \/ \E b \in {last.returned}, value \in HeapValues :
       id(b, value) /\ Within(MaxBuilders, MaxFrags)
  \/ \E b \in {last.returned}, value \in HeapValues :
       class(b, value) /\ Within(MaxBuilders, MaxFrags)
  \/ \E b \in {last.returned}, value \in HeapValues :
       attr(b, value) /\ Within(MaxBuilders, MaxFrags)
  \/ \E b \in {last.returned}, value \in HeapValues :
       pseudoClass(b, value) /\ Within(MaxBuilders, MaxFrags)
  \/ \E b \in {last.returned}, value \in HeapValues :
       pseudoElement(b, value) /\ Within(MaxBuilders, MaxFrags)
  \/ \E b \in {last.returned}, value \in HeapValues :
       raw(b, value) /\ Within(MaxBuilders, MaxFrags)
  \/ \E b \in Builders :
       stringify(b) /\ Within(MaxBuilders, MaxFrags)
  \/ \E s2 \in Builders, c \in CombinatorInputs :
       created = 2 /\ cssSelectorBuilder_combine(1, c, s2)
                   /\ Within(MaxBuilders, MaxFrags)

SpecHeap == InitHeap /\ [][NextHeap]_vars

\* The builders that are the arguments of the nested combine calls.
Arguments == 1..(MaxDepth + 1)

\* The arguments that a combine call has rendered (a facade call leaves a
\* builder with one fragment).
Consumed == {a \in Arguments : selectors[a] = <<>>}

\* Nested combine calls, as in the example of the documentation:
\* MaxDepth + 1 builders are made by facade calls; combine is called on two
\* neighbours; then combine is called on the builder the last combine
\* returned and the next argument to the left or to the right; the builder
\* combine returned is rendered.
NextNested ==
  \/ \E value \in HeapValues :
       created + 1 \in Arguments /\ cssSelectorBuilder_element(value)
  \/ \E value \in HeapValues :
       created + 1 \in Arguments /\ cssSelectorBuilder_id(value)
  \/ \E value \in HeapValues :
       created + 1 \in Arguments /\ cssSelectorBuilder_class(value)
  \/ \E value \in HeapValues :
       created + 1 \in Arguments /\ cssSelectorBuilder_attr(value)
  \/ \E value \in HeapValues :
       created + 1 \in Arguments /\ cssSelectorBuilder_pseudoClass(value)
  \/ \E value \in HeapValues :
       created + 1 \in Arguments /\ cssSelectorBuilder_pseudoElement(value)
  \/ \E a \in Arguments, c \in CombinatorInputs :
       /\ created = MaxDepth + 1
       /\ a + 1 \in Arguments
       /\ cssSelectorBuilder_combine(a, c, a + 1)
  \/ \E a \in Arguments, c \in CombinatorInputs :
       /\ created > MaxDepth + 1
       /\ a + 1 \in Consumed
       /\ a \notin Consumed
       /\ cssSelectorBuilder_combine(a, c, created)
  \/ \E a \in Arguments, c \in CombinatorInputs :
       /\ created > MaxDepth + 1
       /\ a - 1 \in Consumed
       /\ a \notin Consumed
       /\ cssSelectorBuilder_combine(created, c, a)
  \/ \E b \in Builders :
       b > MaxDepth + 1 /\ stringify(b)

SpecNested == Init /\ [][NextNested]_vars

\* Two builders made by facade calls, and method calls on either of them in
\* any order.
NextTwo ==
  \/ \E value \in HeapValues :
       cssSelectorBuilder_element(value) /\ Within(2, MaxFrags)
  \/ \E value \in HeapValues :
       cssSelectorBuilder_id(value) /\ Within(2, MaxFrags)
  \/ \E value \in HeapValues :
       cssSelectorBuilder_class(value) /\ Within(2, MaxFrags)
  \/ \E value \in HeapValues :
       cssSelectorBuilder_attr(value) /\ Within(2, MaxFrags)
  \/ \E value \in HeapValues :
       cssSelectorBuilder_pseudoClass(value) /\ Within(2, MaxFrags)
  \/ \E value \in HeapValues :
       cssSelectorBuilder_pseudoElement(value) /\ Within(2, MaxFrags)
  \/ \E b \in Builders, value \in HeapValues :
       element(b, value) /\ Within(2, MaxFrags)
  \/ \E b \in Builders, value \in HeapValues :
       id(b, value) /\ Within(2, MaxFrags)
  \/ \E b \in Builders, value \in HeapValues :
       class(b, value) /\ Within(2, MaxFrags)
  \/ \E b \in Builders, value \in HeapValues :
       attr(b, value) /\ Within(2, MaxFrags)
  \/ \E b \in Builders, value \in HeapValues :
       pseudoClass(b, value) /\ Within(2, MaxFrags)
  \/ \E b \in Builders, value \in HeapValues :
       pseudoElement(b, value) /\ Within(2, MaxFrags)
  \/ \E b \in Builders, value \in HeapValues :
       raw(b, value) /\ Within(2, MaxFrags)

SpecTwo == Init /\ [][NextTwo]_vars

\* ---------------------------------------- Rectangle, getJSON and fromJSON
\* A value is [type, value], type as typeof gives it; the numbers are the
\* integers of Sides and their products, and NaN.
Sides == 0..MaxSide \cup {10, 20}

NaN == -1

Number(n) == [type |-> "number", value |-> n]

Undefined == [type |-> "undefined", value |-> undefined]

Function(name) == [type |-> "function", value |-> name]

\* An object is the sequence of its own enumerable properties [key, value]
\* in the order in which Object.keys lists them: the keys that are array
\* indices in ascending order, then the other keys in the order in which
\* they were created.
IsIndex(key) == key \in {"0", "1", "2"}

ToIndex(key) ==
  CASE key = "0" -> 0
    [] key = "1" -> 1
    [] key = "2" -> 2

HasProperty(obj, key) == \E i \in 1..Len(obj) : obj[i].key = key

\* obj[key], undefined when obj has no such property.
Get(obj, key) ==
  IF HasProperty(obj, key)
  THEN obj[CHOOSE i \in 1..Len(obj) : obj[i].key = key].value
  ELSE Undefined

\* The object after obj[key] = value.
Put(obj, key, value) ==
  IF HasProperty(obj, key)
  THEN [i \in 1..Len(obj) |->
          IF obj[i].key = key THEN [key |-> key, value |-> value] ELSE obj[i]]
  ELSE IF IsIndex(key)
  THEN LET before == {i \in 1..Len(obj) :
                        IsIndex(obj[i].key) /\ ToIndex(obj[i].key) < ToIndex(key)}
           n == Cardinality(before)
       IN  SubSeq(obj, 1, n) \o <<[key |-> key, value |-> value]>> \o
           SubSeq(obj, n + 1, Len(obj))
  ELSE Append(obj, [key |-> key, value |-> value])

\* x * y on values: NaN unless both are numbers other than NaN.
Multiply(x, y) ==
  IF /\ x.type = "number" /\ x.value # NaN
     /\ y.type = "number" /\ y.value # NaN
  THEN Number(x.value * y.value)
  ELSE Number(NaN)

\* The object literal { width, height, getArea() {...} }.
Rectangle(width, height) ==
  <<[key |-> "width", value |-> width],
    [key |-> "height", value |-> height],
    [key |-> "getArea", value |-> Function("getArea")]>>

\* A variant of getArea that multiplies the width by itself.
getArea_Square(this) == Multiply(Get(this, "width"), Get(this, "width"))

\* this.height * this.width
getArea(this) == Multiply(Get(this, "height"), Get(this, "width"))

\* A JSON text of an object is the sequence of its members [key, value] as
\* written.  JSON.stringify writes the properties in their order and leaves
\* out those whose value is undefined or a function; NaN is written null.
RECURSIVE JSON_stringify(_)
JSON_stringify(obj) ==
  IF obj = <<>> THEN <<>>
  ELSE LET e == obj[Len(obj)]
           rest == JSON_stringify(SubSeq(obj, 1, Len(obj) - 1))
       IN  IF e.value.type = "number" THEN Append(rest, e) ELSE rest

\* A variant of JSON.parse that keeps the members in the order of the text.
RECURSIVE JSON_parse_TextOrder(_)
JSON_parse_TextOrder(json) ==
  IF json = <<>> THEN <<>>
  ELSE LET e == json[Len(json)]
           rest == JSON_parse_TextOrder(SubSeq(json, 1, Len(json) - 1))
       IN  IF HasProperty(rest, e.key) THEN Put(rest, e.key, e.value)
           ELSE Append(rest, e)

\* JSON.parse defines the members as properties from left to right.
RECURSIVE JSON_parse(_)
JSON_parse(json) ==
  IF json = <<>> THEN <<>>
  ELSE LET e == json[Len(json)]
       IN  Put(JSON_parse(SubSeq(json, 1, Len(json) - 1)), e.key, e.value)

Object_values(obj) == [i \in 1..Len(obj) |-> obj[i].value]

\* values[i], undefined when fewer arguments were passed.
Argument(values, i) == IF i <= Len(values) THEN values[i] ELSE Undefined

getJSON(obj) == JSON_stringify(obj)

\* proto is Rectangle.prototype, whose constructor is Rectangle.
fromJSON(json) ==
  LET argObj == JSON_parse(json)
      values == Object_values(argObj)
  IN  [values |-> values,
       returned |-> Rectangle(Argument(values, 1), Argument(values, 2))]

\* The record of a call on objects: the object the caller holds after it,
\* the arguments, and the number or the JSON text returned.
ObjectCall(op, object, arguments, number, json) ==
  [op |-> op, object |-> object, arguments |-> arguments,
   number |-> number, json |-> json]

ObjectOps == {"Rectangle", "assign", "getArea", "getJSON", "fromJSON"}

Keys == {"width", "height", "0", "1"}

\* The JSON texts of at most n members.
RECURSIVE JsonTexts(_)
JsonTexts(n) ==
  IF n = 0 THEN {<<>>}
  ELSE JsonTexts(n - 1) \cup
       {Append(j, [key |-> k, value |-> Number(v)]) :
          j \in JsonTexts(n - 1), k \in Keys, v \in Sides}

\* const r = new Rectangle(width, height)
NewRectangle(width, height) ==
  /\ last' = ObjectCall("Rectangle", Rectangle(Number(width), Number(height)),
                        <<Number(width), Number(height)>>, Undefined, <<>>)
  /\ UNCHANGED <<selectors, created, log>>

\* r[key] = value, by the caller.
Assign(key, value) ==
  /\ last.op \in ObjectOps
  /\ last' = ObjectCall("assign", Put(last.object, key, Number(value)),
                        <<Number(value)>>, Undefined, <<>>)
  /\ UNCHANGED <<selectors, created, log>>

\* r.getArea()
CallGetArea ==
  /\ last.op \in ObjectOps
  /\ HasProperty(last.object, "getArea")
  /\ last' = ObjectCall("getArea", last.object, <<>>,
                        getArea(last.object), <<>>)
  /\ UNCHANGED <<selectors, created, log>>

\* getJSON(r)
CallGetJSON ==
  /\ last.op \in ObjectOps
  /\ last' = ObjectCall("getJSON", last.object, <<>>, Undefined,
                        getJSON(last.object))
  /\ UNCHANGED <<selectors, created, log>>

\* r = fromJSON(Rectangle.prototype, json), json the text that the caller
\* holds: the one it started with or the one getJSON returned.
CallFromJSON ==
  /\ last.op \in {"init", "getJSON"}
  /\ LET r == fromJSON(last.json)
     IN  last' = ObjectCall("fromJSON", r.returned, r.values, Undefined,
                           last.json)
  /\ UNCHANGED <<selectors, created, log>>

\* No builder, no object, and a JSON text.
InitObjects ==
  /\ selectors = [b \in Builders |-> <<>>]
  /\ created = 0
  /\ log = [b \in Builders |-> <<>>]
  /\ \E json \in JsonTexts(MaxMembers) :
       last = ObjectCall("init", <<>>, <<>>, Undefined, json)

NextObjects ==
  \/ \E width \in Sides, height \in Sides : NewRectangle(width, height)
  \/ \E key \in {"width", "height", "0"}, value \in Sides : Assign(key, value)
  \/ CallGetArea
  \/ CallGetJSON
  \/ CallFromJSON

SpecObjects == InitObjects /\ [][NextObjects]_vars

\* ------------------------------------------------------------ properties
\* The rank of each category of ranked fragment.
Rank(category) ==
  CASE category = "element" -> 1
    [] category = "id" -> 2
    [] category = "class" -> 3
    [] category = "attr" -> 4
    [] category = "pseudoClass" -> 5
    [] category = "pseudoElement" -> 6

\* The categories that occur at most once.
Unique == {"element", "id", "pseudoElement"}

\* Number of fragments of a category in the array s.
Count(s, category) ==
  Cardinality({i \in 1..Len(s) : s[i].type = category})

\* The text that a call op(value) is to append.
Text(op, value) ==
  CASE op = "element" -> value
    [] op = "id" -> "#" \o value
    [] op = "class" -> "." \o value
    [] op = "attr" -> "[" \o value \o "]"
    [] op = "pseudoClass" -> ":" \o value
    [] op = "pseudoElement" -> "::" \o value
    [] op = "raw" -> value

\* The texts of the calls l, one after the other.
RECURSIVE Texts(_)
Texts(l) ==
  IF l = <<>> THEN ""
  ELSE Texts(SubSeq(l, 1, Len(l) - 1)) \o Text(l[Len(l)].op, l[Len(l)].value)

\* The calls l are ranked appends of non-decreasing rank, with at most one
\* element, one id and one pseudoElement.
Ordered(l) ==
  /\ \A i \in 1..Len(l) : l[i].op \in RankedMethods
  /\ \A i \in 1..Len(l) : \A j \in i..Len(l) : Rank(l[i].op) <= Rank(l[j].op)
  /\ \A c \in Unique : Cardinality({i \in 1..Len(l) : l[i].op = c}) <= 1

\* The facade calls that start a builder.
FacadeOps == {"new." \o m : m \in RankedMethods}

\* C1: element, id or pseudoElement called on a builder that already holds a
\* fragment of that category throws the repeat error, whatever else the
\* builder holds, also when the order check would fail as well.
C1_RepeatErrorFirst ==
  [][\A b \in Builders :
       (/\ last'.op \in Unique
        /\ last'.this = b
        /\ Count(selectors[b], last'.op) >= 1)
       => last'.thrown = repeatError]_vars

\* C1 happens: element was called on [element, class] and threw the repeat
\* error.
C1_Witness ==
  /\ last.op = "element"
  /\ last.thrown = repeatError
  /\ Len(selectors[last.this]) = 2
  /\ selectors[last.this][1].type = "element"
  /\ selectors[last.this][2].type = "class"

\* Largest rank among the ranked fragments of s, 0 when there is none.
MaxRank(s) ==
  LET ranks == {Rank(s[i].type) : i \in {j \in 1..Len(s) : s[j].type # "raw"}}
  IN  IF ranks = {} THEN 0 ELSE CHOOSE r \in ranks : \A q \in ranks : q <= r

C3_ValidChainRenders ==
  [][/\ last'.op \in FacadeOps =>
          /\ last'.thrown = NoError
          /\ last'.returned = created'
     /\ \A b \in Builders :
          /\ (/\ last'.op \in RankedMethods
              /\ last'.this = b
              /\ Ordered(log[b])
              /\ Ordered(Append(log[b], [op |-> last'.op,
                                         value |-> last'.value])))
             => (last'.thrown = NoError /\ last'.returned = b)
          /\ (/\ last'.op = "stringify"
              /\ last'.this = b
              /\ Ordered(log[b]))
             => last'.string = Texts(log[b])]_vars

\* C3 happens: id('a').class('a').class('b') was rendered as '#a.a.b'.
C3_Witness ==
  /\ last.op = "stringify"
  /\ last.string = "#a.a.b"

\* C4: a call that throws leaves every builder's array as it was, and
\* returns no builder.
C4_FailedAppendKeepsState ==
  [][last'.thrown # NoError =>
       (selectors' = selectors /\ last'.returned = NoObject)]_vars

\* C4 happens: class threw the order error on a builder that holds two
\* fragments.
C4_Witness ==
  /\ last.op = "class"
  /\ last.thrown = orderError
  /\ Len(selectors[last.this]) = 2

C6_RanksNonDecreasing ==
  \A b \in Builders :
    \A i \in 1..Len(selectors[b]) : \A j \in i..Len(selectors[b]) :
      (selectors[b][i].type # "raw" /\ selectors[b][j].type # "raw")
      => Rank(selectors[b][i].type) <= Rank(selectors[b][j].type)

CombinedString == Builder_stringify(selectors[last.returned]).string

\* C8 as stated: the builder that combine(A, c, B) returns renders as the
\* text of A, ' ', c, ' ' and the text of B, A and B as they were before the
\* call, whether or not A and B are one object.
C8_Original ==
  [][last'.op = "combine" =>
       CombinedString' =
         Texts(log[last'.selector1]) \o " " \o last'.value \o " "
           \o Texts(log[last'.selector2])]_vars

\* C8 amended: so it is when A and B are two objects; when they are one
\* object the text of B is missing: the builder renders as the text of A,
\* ' ', c and ' '.
C8_CombineRenders ==
  [][last'.op = "combine" =>
       CombinedString' =
         Texts(log[last'.selector1]) \o " " \o last'.value \o " "
           \o (IF last'.selector1 = last'.selector2 THEN ""
               ELSE Texts(log[last'.selector2]))]_vars

\* C8 happens: combine(element('a').id('a'), '+', element('a').id('a')) on
\* two builders returned a builder that renders as 'a#a + a#a'.
C8_Witness ==
  /\ last.op = "combine"
  /\ last.selector1 # last.selector2
  /\ CombinedString = "a#a + a#a"

\* C9 as stated: combine leaves the arrays of its two arguments as they
\* were.
C9_Original ==
  [][last'.op = "combine" =>
       /\ selectors'[last'.selector1] = selectors[last'.selector1]
       /\ selectors'[last'.selector2] = selectors[last'.selector2]]_vars

\* C9 amended: combine empties the arrays of its two arguments, and leaves
\* every builder other than them and the one it returns as it was.
C9_CombineEmptiesArguments ==
  [][last'.op = "combine" =>
       /\ selectors'[last'.selector1] = <<>>
       /\ selectors'[last'.selector2] = <<>>
       /\ \A o \in Builders \ {last'.selector1, last'.selector2,
                                 last'.returned} :
            selectors'[o] = selectors[o]]_vars

\* C9 happens: combine was called on two builders that held fragments, and
\* both are empty.
C9_Witness ==
  /\ last.op = "combine"
  /\ last.selector1 # last.selector2
  /\ selectors[last.selector1] = <<>>
  /\ selectors[last.selector2] = <<>>
  /\ selectors[last.returned][1].value = "a.a"
  /\ selectors[last.returned][3].value = "#a"

RECURSIVE CallsText(_)
CallsText(l) ==
  IF l = <<>> THEN ""
  ELSE LET e == l[Len(l)]
       IN  CallsText(SubSeq(l, 1, Len(l) - 1)) \o
           (IF e.op = "combine"
            THEN CallsText(e.left) \o " " \o e.value \o " " \o
                 CallsText(e.right)
            ELSE Text(e.op, e.value))

\* Every combine call among the calls l, nested ones included, had two
\* different builders as its arguments.
RECURSIVE DistinctArguments(_)
DistinctArguments(l) ==
  \A i \in 1..Len(l) :
    l[i].op = "combine" =>
      /\ ~l[i].same
      /\ DistinctArguments(l[i].left)
      /\ DistinctArguments(l[i].right)

\* Number of combine calls nested in one another among the calls l.
RECURSIVE Depth(_)
Depth(l) ==
  IF l = <<>> \/ l[1].op # "combine" THEN 0
  ELSE 1 + (IF Depth(l[1].left) > Depth(l[1].right)
            THEN Depth(l[1].left) ELSE Depth(l[1].right))

\* C11: combine calls nested in one another, to the left or to the right, on
\* different builders, return a builder whose rendering is the renderings of
\* the arguments from left to right, each two joined by ' ', their
\* combinator and ' '; stringify returns that string.
C11_NestedCombineRenders ==
  [][/\ (/\ last'.op = "combine"
         /\ last'.selector1 # last'.selector2
         /\ DistinctArguments(log[last'.selector1])
         /\ DistinctArguments(log[last'.selector2]))
        => CombinedString' =
             CallsText(log[last'.selector1]) \o " " \o last'.value \o " "
               \o CallsText(log[last'.selector2])
     /\ \A b \in Builders :
          (/\ last'.op = "stringify"
           /\ last'.this = b
           /\ DistinctArguments(log[b]))
          => last'.string = CallsText(log[b])]_vars

\* C11 happens: stringify returned the renderings of three builders joined
\* by two combinators, which takes two combine calls, one nested in the
\* other.
C11_Witness ==
  /\ last.op = "stringify"
  /\ last.string = "a + #a x .a"
  /\ \A a \in 1..3 : selectors[a] = <<>>

\* The categories that may repeat.
Repeatable == {"class", "attr", "pseudoClass"}

\* The string that stringify would return for the array s.
Rendered(s) == Builder_stringify(s).string

\* C12: class, attr and pseudoClass may repeat: on a builder that is empty or
\* whose last fragment has a rank not greater than the category's (3, 4, 5),
\* the append succeeds however many fragments of the category the builder
\* holds; the last fragment then has the category's rank, so that the same
\* append succeeds again, and the rendering is the one before followed by
\* the new occurrence.
C12_RepeatableAppendsSucceed ==
  [][\A b \in Builders :
       (/\ last'.op \in Repeatable
        /\ last'.this = b
        /\ \/ selectors[b] = <<>>
           \/ /\ selectors[b][Len(selectors[b])].type # "raw"
              /\ selectors[b][Len(selectors[b])].priority <= Rank(last'.op))
       => /\ last'.thrown = NoError
          /\ Len(selectors'[b]) = Len(selectors[b]) + 1
          /\ selectors'[b][Len(selectors'[b])].priority = Rank(last'.op)
          /\ Rendered(selectors'[b]) =
               Rendered(selectors[b]) \o Text(last'.op, last'.value)]_vars

\* C12 happens: a third attr in a row was appended, and the three are
\* rendered in the order of the calls.
C12_Witness ==
  /\ last.op = "attr"
  /\ last.thrown = NoError
  /\ Count(selectors[last.this], "attr") = 3
  /\ Rendered(selectors[last.this]) = "[a][b][a]"

\* The methods that append a fragment.
Appends == RankedMethods \cup {"raw"}

\* C13: an append that succeeds returns the builder it was called on; a
\* facade call returns a builder that did not exist before, which holds the
\* one fragment of the call; and neither changes the array of any other
\* builder, in whatever order the calls on two builders are made.
C13_BuildersIndependent ==
  [][/\ \A b \in Builders :
          (last'.op \in Appends /\ last'.this = b)
          => /\ last'.thrown = NoError => last'.returned = b
             /\ \A o \in Builders \ {b} : selectors'[o] = selectors[o]
     /\ last'.op \in FacadeOps
        => /\ last'.returned \notin Alive
           /\ last'.returned \in 1..created'
           /\ Len(selectors'[last'.returned]) = 1
           /\ \A o \in Builders \ {last'.returned} :
                selectors'[o] = selectors[o]]_vars

\* C13 happens: the second builder was made and appended to, then the
\* first builder was appended to again, and each holds its own fragments.
C13_Witness ==
  /\ created = 2
  /\ last.op = "id"
  /\ last.this = 1
  /\ last.returned = 1
  /\ Rendered(selectors[1]) = "a#a"
  /\ Rendered(selectors[2]) = ".a::a"

\* The keys of the members of the JSON text json, the place where a key first
\* appears, and the value of its last member.
KeysOf(json) == {json[i].key : i \in 1..Len(json)}

First(json, key) ==
  CHOOSE i \in 1..Len(json) :
    json[i].key = key /\ \A j \in 1..(i - 1) : json[j].key # key

LastValue(json, key) ==
  json[CHOOSE i \in 1..Len(json) :
         json[i].key = key /\ \A j \in (i + 1)..Len(json) : json[j].key # key
      ].value

\* values are the values of the keys of json in the order in which the keys
\* appear in the text.
InTextOrder(values, json) ==
  /\ Len(values) = Cardinality(KeysOf(json))
  /\ \A k \in KeysOf(json) :
       values[1 + Cardinality({k2 \in KeysOf(json) :
                                 First(json, k2) < First(json, k)})]
         = LastValue(json, k)

\* Object.values lists the key k2 before the key k: array indices in
\* ascending order first, then the other keys as they appear in the text.
ListedBefore(json, k2, k) ==
  IF IsIndex(k2) /\ IsIndex(k) THEN ToIndex(k2) < ToIndex(k)
  ELSE IF IsIndex(k2) THEN TRUE
  ELSE IF IsIndex(k) THEN FALSE
  ELSE First(json, k2) < First(json, k)

InKeyOrder(values, json) ==
  /\ Len(values) = Cardinality(KeysOf(json))
  /\ \A k \in KeysOf(json) :
       values[1 + Cardinality({k2 \in KeysOf(json) \ {k} :
                                 ListedBefore(json, k2, k)})]
         = LastValue(json, k)

\* The object that fromJSON returned was made by the constructor from the
\* arguments in their order.
Constructed ==
  /\ Get(last.object, "width") = Argument(last.arguments, 1)
  /\ Get(last.object, "height") = Argument(last.arguments, 2)

\* The own properties of obj are those that its constructor makes, in the
\* order of the constructor's parameters.
FieldsInOrder(obj) ==
  [i \in 1..Len(obj) |-> obj[i].key] = <<"width", "height", "getArea">>

\* fromJSON(proto, getJSON(obj)) has the fields of obj.
RoundTrip ==
  (/\ last.op = "getJSON"
   /\ FieldsInOrder(last.object)
   /\ last'.op = "fromJSON")
  => last'.object = last.object

\* fromJSON(proto, getJSON(obj)) has the fields of obj when, besides, the
\* fields of obj are numbers, which JSON.stringify writes.
RoundTripOfNumbers ==
  (/\ last.op = "getJSON"
   /\ FieldsInOrder(last.object)
   /\ Get(last.object, "width").type = "number"
   /\ Get(last.object, "height").type = "number"
   /\ last'.op = "fromJSON")
  => last'.object = last.object

C15_RectangleArea ==
  [][/\ last'.op = "Rectangle"
        => /\ Get(last'.object, "width") = last'.arguments[1]
           /\ Get(last'.object, "height") = last'.arguments[2]
     /\ (/\ last'.op = "getArea"
         /\ Get(last.object, "width").type = "number"
         /\ Get(last.object, "height").type = "number")
        => /\ last'.number.type = "number"
           /\ last'.number.value =
                Get(last.object, "height").value *
                Get(last.object, "width").value
           /\ last'.object = last.object]_vars

\* C15 happens: getArea() of a rectangle of width 10 and height 20
\* returned 200.
C15_Witness ==
  /\ last.op = "getArea"
  /\ Get(last.object, "width") = Number(10)
  /\ Get(last.object, "height") = Number(20)
  /\ last.number = Number(200)

\* C16: an append that succeeds, by a method or by a facade call, adds one
\* fragment at the end of the array and leaves the fragments before it as
\* they were; the fragment has the category of the call, the value with the
\* category's sigil as its text, and the category's rank.
C16_AppendAddsOneFragment ==
  [][/\ \A b \in Builders :
          (/\ last'.op \in RankedMethods
           /\ last'.this = b
           /\ last'.thrown = NoError)
          => /\ Len(selectors'[b]) = Len(selectors[b]) + 1
             /\ SubSeq(selectors'[b], 1, Len(selectors[b])) = selectors[b]
             /\ selectors'[b][Len(selectors'[b])] =
                  [type |-> last'.op,
                   value |-> Text(last'.op, last'.value),
                   priority |-> Rank(last'.op)]
     /\ \A m \in RankedMethods :
          last'.op = "new." \o m
          => selectors'[last'.returned] =
               <<[type |-> m, value |-> Text(m, last'.value),
                  priority |-> Rank(m)]>>]_vars

\* C16 happens: pseudoElement was appended to a builder of two fragments,
\* which are in front of it as before.
C16_Witness ==
  /\ last.op = "pseudoElement"
  /\ last.thrown = NoError
  /\ Len(selectors[last.this]) = 3
  /\ selectors[last.this][1].value = "#b"
  /\ selectors[last.this][2].value = "[a]"
  /\ selectors[last.this][3] =
       [type |-> "pseudoElement", value |-> "::b", priority |-> 6]

\* The rank of the last ranked fragment of the array s, undefined when s
\* holds no ranked fragment.
RECURSIVE LastRank(_)
LastRank(s) ==
  IF s = <<>> THEN undefined
  ELSE IF s[Len(s)].type # "raw" THEN s[Len(s)].priority
  ELSE LastRank(SubSeq(s, 1, Len(s) - 1))

\* C17 as stated: a ranked append on a builder whose last fragment is raw is
\* compared with the last ranked fragment: when that has a greater rank,
\* and the category is not one that the builder holds and may not repeat,
\* the append throws the order error; and raw never throws.
C17_RawSkippedByOrderCheck ==
  [][\A b \in Builders :
       /\ (/\ last'.op \in RankedMethods
           /\ last'.this = b
           /\ selectors[b] # <<>>
           /\ selectors[b][Len(selectors[b])].type = "raw"
           /\ LastRank(selectors[b]) > Rank(last'.op)
           /\ ~(last'.op \in Unique /\ Count(selectors[b], last'.op) >= 1))
          => last'.thrown = orderError
       /\ (last'.op = "raw" /\ last'.this = b)
          => last'.thrown = NoError]_vars

\* C18: right after stringify on a builder its array is empty: a second
\* stringify returns '', and every append succeeds and leaves the builder
\* with that one fragment, as on a new builder, also the element, id or
\* pseudoElement that the builder held when it was rendered.
C18_StringifyOneShot ==
  [][\A b \in Builders :
       (last.op = "stringify" /\ last.this = b)
       => /\ selectors[b] = <<>>
          /\ (last'.op = "stringify" /\ last'.this = b)
             => last'.string = ""
          /\ (last'.op \in Appends /\ last'.this = b)
             => /\ last'.thrown = NoError
                /\ last'.returned = b
                /\ selectors'[b] =
                     Apply(last'.op, <<>>, last'.value).selectors
                /\ Len(selectors'[b]) = 1]_vars

\* C18 happens: a builder, which a facade call left with a fragment, was
\* rendered, and id called on it left it with the id alone.
C18_Witness ==
  /\ last.op = "id"
  /\ last.thrown = NoError
  /\ selectors[last.this] = <<[type |-> "id", value |-> "#a", priority |-> 2]>>
  /\ log[last.this] = <<[op |-> "id", value |-> "a"]>>
  /\ created = 1

====
